---- MODULE Spec2Model ----
(***************************************************************************)
(* The analyze-chart endpoint: one request handled by one of the three     *)
(* handler variants of the repository.                                     *)
(*   "pro"         src/api/analyze-chart.js          (gemini-1.5-pro)      *)
(*   "fundamental" src/unnamed/part_000 lines 22-120 (gemini-2.5-pro)      *)
(*   "flash"       src/unnamed/part_000 lines 141-286 (gemini-1.5-flash)   *)
(*                                                                         *)
(* JavaScript strings are sequences of text chunks (TLA+ strings cannot be *)
(* taken apart), so concatenation is \o and a prefix/substring test is a   *)
(* test on the sequence.  An optional value (undefined or v) is the        *)
(* sequence <<>> or <<v>>.                                                 *)
(***************************************************************************)
EXTENDS Integers, Sequences, FiniteSets, TLC

VARIABLES
    variant,            \* which of the three handlers serves the request
    method,             \* request.method
    apiKey,             \* process.env.GEMINI_API_KEY: <<>> (unset) or <<string>>
    acceptLanguage,     \* request.headers['accept-language']: <<>> or <<chars>>
    pc,                 \* position of the handler
    files,              \* files of form.parse: [image |-> <<>> or <<list of files>>]
    fields,             \* fields of form.parse: [outputLanguage |-> <<>> or <<list>>]
    geminiResponseText, \* result.response.text()
    analysisOutput,     \* the analysisOutput local
    error,              \* the caught error's message: <<>> or <<text>>
    responses,          \* every response.status(..).json(..) sent, in order
    trace,              \* the steps of the handler that completed, in order
    modelCalls          \* number of model.generateContent calls made

vars == <<variant, method, apiKey, acceptLanguage, pc, files, fields,
          geminiResponseText, analysisOutput, error, responses, trace, modelCalls>>

-----------------------------------------------------------------------------
(* Bounds *)

\* longest model reply enumerated exhaustively over ReplyAlphabet
MaxReplyLen == 2

-----------------------------------------------------------------------------
(* JSON values.  Every value has the same three fields so that any two     *)
(* values can be compared: text holds a string's chunks (or a number's     *)
(* literal), items an object's members in insertion order or an array's    *)
(* elements (with k = "").                                                 *)

Undefined == [type |-> "undefined", text |-> <<>>, items |-> <<>>]
JNull == [type |-> "null", text |-> <<>>, items |-> <<>>]
JString(t) == [type |-> "string", text |-> t, items |-> <<>>]
JNumber(lit) == [type |-> "number", text |-> <<lit>>, items |-> <<>>]
JObject(members) == [type |-> "object", text |-> <<>>, items |-> members]
JArray(elements) == [type |-> "array", text |-> <<>>, items |-> elements]

\* Tokens of a model reply.  A string literal token stands for the literal
\* with its quotes; StrOf gives its content.
Whitespace == {"\n", " "}
NumberTokens == {"1"}
KeyTokens == {"'direction'", "'rationale'", "'support'", "'resistance'", "'riskWarning'",
              "'extra'"}
StringTokens == KeyTokens \cup {"'Bullish'", "'text'"}

StrOf(tok) ==
    CASE tok = "'direction'" -> "direction"
      [] tok = "'rationale'" -> "rationale"
      [] tok = "'support'" -> "support"
      [] tok = "'resistance'" -> "resistance"
      [] tok = "'riskWarning'" -> "riskWarning"
      [] tok = "'extra'" -> "extra"
      [] tok = "'Bullish'" -> "Bullish"
      [] OTHER -> "text"

RECURSIVE SkipWs(_, _)
SkipWs(t, i) ==
    IF i <= Len(t) /\ t[i] \in Whitespace THEN SkipWs(t, i + 1) ELSE i

\* obj[k] = v on an object's member list: an existing key keeps its place
SetKey(members, k, v) ==
    IF \E n \in 1..Len(members) : members[n].k = k
    THEN [n \in 1..Len(members) |->
             IF members[n].k = k THEN [k |-> k, v |-> v] ELSE members[n]]
    ELSE Append(members, [k |-> k, v |-> v])

ParseFail == [ok |-> FALSE, val |-> Undefined, next |-> 0]
ParseOk(v, n) == [ok |-> TRUE, val |-> v, next |-> n]

RECURSIVE ParseValue(_, _)
RECURSIVE ParseMembers(_, _, _)
RECURSIVE ParseElements(_, _, _)

\* members of an object from position i0 (after "{" or ","), acc so far
ParseMembers(t, i0, acc) ==
    LET i == SkipWs(t, i0) IN
    IF i > Len(t) \/ t[i] \notin StringTokens THEN ParseFail
    ELSE LET c == SkipWs(t, i + 1) IN
         IF c > Len(t) \/ t[c] # ":" THEN ParseFail
         ELSE LET r == ParseValue(t, c + 1) IN
              IF ~r.ok THEN ParseFail
              ELSE LET e == SkipWs(t, r.next)
                       acc2 == SetKey(acc, StrOf(t[i]), r.val) IN
                   IF e > Len(t) THEN ParseFail
                   ELSE IF t[e] = "}" THEN ParseOk(JObject(acc2), e + 1)
                   ELSE IF t[e] = "," THEN ParseMembers(t, e + 1, acc2)
                   ELSE ParseFail

\* elements of an array from position i0 (after "[" or ","), acc so far
ParseElements(t, i0, acc) ==
    LET r == ParseValue(t, i0) IN
    IF ~r.ok THEN ParseFail
    ELSE LET e == SkipWs(t, r.next)
             acc2 == Append(acc, [k |-> "", v |-> r.val]) IN
         IF e > Len(t) THEN ParseFail
         ELSE IF t[e] = "]" THEN ParseOk(JArray(acc2), e + 1)
         ELSE IF t[e] = "," THEN ParseElements(t, e + 1, acc2)
         ELSE ParseFail

\* one JSON value starting at or after position i0
ParseValue(t, i0) ==
    LET i == SkipWs(t, i0) IN
    IF i > Len(t) THEN ParseFail
    ELSE IF t[i] = "null" THEN ParseOk(JNull, i + 1)
    ELSE IF t[i] \in NumberTokens THEN ParseOk(JNumber(t[i]), i + 1)
    ELSE IF t[i] \in StringTokens THEN ParseOk(JString(<<StrOf(t[i])>>), i + 1)
    ELSE IF t[i] = "{"
         THEN LET j == SkipWs(t, i + 1) IN
              IF j <= Len(t) /\ t[j] = "}" THEN ParseOk(JObject(<<>>), j + 1)
              ELSE ParseMembers(t, j, <<>>)
    ELSE IF t[i] = "["
         THEN LET j == SkipWs(t, i + 1) IN
              IF j <= Len(t) /\ t[j] = "]" THEN ParseOk(JArray(<<>>), j + 1)
              ELSE ParseElements(t, j, <<>>)
    ELSE ParseFail

\* JSON.parse(text): one value, then only whitespace; ok = FALSE is the
\* SyntaxError it throws
JSONParse(text) ==
    LET r == ParseValue(text, 1) IN
    IF r.ok /\ SkipWs(text, r.next) > Len(text) THEN r ELSE ParseFail

-----------------------------------------------------------------------------
(* Strings as sequences *)

\* s.startsWith(p)
StartsWith(s, p) == Len(s) >= Len(p) /\ SubSeq(s, 1, Len(p)) = p

\* s.includes(p)
Includes(s, p) ==
    \E i \in 1..(Len(s) - Len(p) + 1) : SubSeq(s, i, i + Len(p) - 1) = p

-----------------------------------------------------------------------------
(* The handler's conditions and messages *)

Variants == {"pro", "fundamental", "flash"}

\* mutant of MethodAllowed: only GET is turned away
MethodAllowedAnyButGet(m) == m # "GET"

\* request.method !== 'POST' is the negation of this
MethodAllowed(m) == m = "POST"

\* mutant of HasApiKey: an empty value counts as configured
HasApiKeyDefinedOnly(k) == k # <<>>

\* !process.env.GEMINI_API_KEY is the negation of this: unset and '' are falsy
HasApiKey(k) == k # <<>> /\ k[1] # ""

NoApiKeyMessage(v) ==
    IF v = "flash"
    THEN <<"GEMINI_API_KEY environment variable is not configured.">>
    ELSE <<"Server is full, please try again later.">>

\* mutant of HasImage: the length of the list is not looked at
HasImageFieldOnly(f) == f.image # <<>>

\* !files.image || files.image.length === 0 is the negation of this
HasImage(f) == f.image # <<>> /\ Len(f.image[1]) # 0

\* mutant of IsImageMimetype: includes instead of startsWith
IsImageMimetypeAnywhere(m) == Includes(m, <<"i", "m", "a", "g", "e", "/">>)

\* imageFile.mimetype.startsWith('image/')
IsImageMimetype(m) == StartsWith(m, <<"i", "m", "a", "g", "e", "/">>)

\* fields.outputLanguage ? fields.outputLanguage[0] : 'en'
OutputLanguage(f) ==
    IF f.outputLanguage # <<>> THEN f.outputLanguage[1][1] ELSE "en"

\* response.status(s).json({ message })
MessageResponse(s, msg) ==
    [status |-> s, keys |-> {"message"}, message |-> msg, analysis |-> Undefined]

\* response.status(200).json({ analysis })
AnalysisResponse(a) ==
    [status |-> 200, keys |-> {"analysis"}, message |-> <<>>, analysis |-> a]

\* geminiResponseText.match(/FENCEjson\n([\s\S]*?)\nFENCE/), FENCE standing
\* for three backquotes: the leftmost opening fence that has a closing fence
\* after it, and the text up to the first such closing fence.  A closing
\* "\nFENCE" is also the start of "\nFENCEjson".
FenceCloses(t, i) ==
    {j \in (i + 2)..(Len(t) - 1) : t[j] = "\n" /\ t[j + 1] \in {"FENCE", "FENCEjson"}}

FenceOpens(t) ==
    {i \in 1..(Len(t) - 1) :
        t[i] = "FENCEjson" /\ t[i + 1] = "\n" /\ FenceCloses(t, i) # {}}

Min(S) == CHOOSE x \in S : \A y \in S : x <= y

JsonMatch(t) ==
    IF FenceOpens(t) = {} THEN [found |-> FALSE, group |-> <<>>]
    ELSE LET i == Min(FenceOpens(t))
             j == Min(FenceCloses(t, i)) IN
         [found |-> TRUE, group |-> SubSeq(t, i + 2, j - 1)]

\* the try block that fills analysisOutput: JSON.parse of the whole reply
\* ("pro"), or of the fenced part when there is a non-empty one
ReplyParse(v, text) ==
    IF v = "pro" THEN JSONParse(text)
    ELSE LET m == JsonMatch(text) IN
         IF m.found /\ m.group # <<>> THEN JSONParse(m.group) ELSE JSONParse(text)

FallbackMessage(v, lang) ==
    CASE v = "pro" ->
            IF lang = "id" THEN "Gagal mem-parse analisis dari AI. Respon mentah: "
            ELSE "Failed to parse analysis from AI. Raw response: "
      [] v = "fundamental" ->
            IF lang = "id" THEN "Gagal mem-parse analisis rinci dari AI. Respon mentah: "
            ELSE "Failed to parse detailed analysis from AI. Raw response: "
      [] OTHER -> "Could not parse detailed analysis from AI. Raw response: "

FallbackRiskWarning(v, lang) ==
    IF v # "flash" /\ lang = "id"
    THEN "Selalu berhati-hati. Analisis AI hanya untuk tujuan informasi."
    ELSE "Always exercise caution. AI analysis is for informational purposes only."

\* mutant of FallbackDirection: the direction is not localised
FallbackDirectionEnglishOnly(v, lang) == "Uncertain"

FallbackDirection(v, lang) ==
    IF v # "flash" /\ lang = "id" THEN "Tidak Pasti" ELSE "Uncertain"

\* the record of the catch (parseError) block
FallbackRecord(v, lang, text) ==
    JObject(<<[k |-> "direction", v |-> JString(<<FallbackDirection(v, lang)>>)],
              [k |-> "rationale", v |-> JString(<<FallbackMessage(v, lang)>> \o text)],
              [k |-> "support", v |-> JString(<<"N/A">>)],
              [k |-> "resistance", v |-> JString(<<"N/A">>)],
              [k |-> "riskWarning", v |-> JString(<<FallbackRiskWarning(v, lang)>>)]>>)

\* mutant of AnalysisOf: a parsed object keeps only the five known fields
AnalysisOfKnownFieldsOnly(v, lang, text) ==
    LET r == ReplyParse(v, text)
        known(e) == e.k \in {"direction", "rationale", "support", "resistance",
                             "riskWarning"} IN
    IF ~r.ok THEN FallbackRecord(v, lang, text)
    ELSE IF r.val.type = "object" THEN JObject(SelectSeq(r.val.items, known))
    ELSE r.val

\* analysisOutput after the inner try/catch
AnalysisOf(v, lang, text) ==
    LET r == ReplyParse(v, text) IN
    IF r.ok THEN r.val ELSE FallbackRecord(v, lang, text)

\* mutant of WantsIndonesian: the header has to start with 'id'
WantsIndonesianFirst(al) == al # <<>> /\ StartsWith(al[1], <<"i", "d">>)

\* the header test of the outer catch block
WantsIndonesian(al) == al # <<>> /\ al[1] # <<>> /\ Includes(al[1], <<"i", "d">>)

\* errorMessage of the outer catch block
ErrorMessage(v, al, err) ==
    IF v = "flash"
    THEN <<"Failed to analyze chart. Please check the image and try again. Error: ">> \o err
    ELSE IF WantsIndonesian(al)
         THEN <<"Gagal menganalisis grafik. Detail kesalahan: ">> \o err
         ELSE <<"Failed to analyze chart. Error details: ">> \o err

-----------------------------------------------------------------------------
(* Inputs *)

Methods == {"GET", "POST", "PUT"}

ApiKeys == {<<>>, <<"">>, <<"key">>}

AcceptLanguages ==
    {<<>>, <<<<>>>>, <<<<"e", "n">>>>, <<<<"i", "d">>>>, <<<<"I", "D">>>>,
     <<<<"e", "n", ",", "i", "d">>>>, <<<<"d", "i">>>>}

Mimetypes ==
    {<<"i", "m", "a", "g", "e", "/", "p", "n", "g">>,
     <<"i", "m", "a", "g", "e", "/">>,
     <<"i", "m", "a", "g", "e">>,
     <<"I", "m", "a", "g", "e", "/", "p", "n", "g">>,
     <<"t", "e", "x", "t", "/", "i", "m", "a", "g", "e", "/">>,
     <<"a", "p", "p", "/", "p", "d", "f">>}

UploadedFiles == {[mimetype |-> m, filepath |-> "/tmp/upload"] : m \in Mimetypes}

\* files.image: undefined, an empty list, one file, or two files
ImageLists ==
    {<<>>, <<<<>>>>} \cup {<<<<f>>>> : f \in UploadedFiles}
    \cup {<<<<f, g>>>> : f \in {x \in UploadedFiles : Len(x.mimetype) = 7},
                         g \in {x \in UploadedFiles : Len(x.mimetype) = 9}}

OutputLanguageLists == {<<>>, <<<<"en">>>>, <<<<"id">>>>, <<<<"ID">>>>, <<<<"id", "en">>>>}

ErrorTexts == {<<"request aborted">>, <<"ENOENT: no such file">>, <<"fetch failed">>,
               <<"Missing Content-Type">>}

ReplyAlphabet == {"{", "}", "null", "\n", "FENCEjson", "FENCE", "Here is my analysis", "'text'"}

RECURSIVE SeqsUpTo(_, _)
SeqsUpTo(S, n) ==
    IF n = 0 THEN {<<>>}
    ELSE LET shorter == SeqsUpTo(S, n - 1) IN
         shorter \cup {Append(s, x) : s \in {q \in shorter : Len(q) = n - 1}, x \in S}

FullObject ==
    <<"{", "'direction'", ":", "'Bullish'", ",", "'rationale'", ":", "'text'", ",",
      "'support'", ":", "1", ",", "'resistance'", ":", "'text'", ",",
      "'riskWarning'", ":", "'text'", "}">>

SampleReplies ==
    {FullObject,
     <<"\n">> \o FullObject \o <<" ">>,
     <<"FENCEjson", "\n">> \o FullObject \o <<"\n", "FENCE">>,
     <<"Here is my analysis", "\n", "FENCEjson", "\n">> \o FullObject
         \o <<"\n", "FENCE", "\n", "Here is my analysis">>,
     FullObject \o <<"Here is my analysis">>,
     SubSeq(FullObject, 1, 20),
     <<"{", "'direction'", ":", "'Bullish'", "}">>,
     <<"{", "'direction'", ":", "'Bullish'", ",", "'direction'", ":", "null", ",",
       "'extra'", ":", "[", "1", ",", "{", "}", "]", "}">>,
     <<"[", "]">>, <<"[", "1", ",", "]">>, <<"1">>, <<"'Bullish'">>,
     <<"FENCEjson", "\n", "null", "\n", "FENCE">>,
     <<"FENCEjson", "\n", "\n", "FENCE">>,
     <<"FENCEjson", "\n", "Here is my analysis", "\n", "FENCE">>,
     <<"FENCEjson", "\n", "{", "\n", "FENCEjson", "\n", "null", "\n", "FENCE">>,
     <<"FENCEjson", "\n", "null", "\n", "FENCE", "\n", "FENCEjson", "\n", "{", "}", "\n", "FENCE">>,
     <<"FENCE", "\n", "null", "\n", "FENCE">>}

Replies == SampleReplies \cup SeqsUpTo(ReplyAlphabet, MaxReplyLen)

-----------------------------------------------------------------------------
(* The handler *)

Init ==
    /\ variant \in Variants
    /\ method \in Methods
    /\ apiKey \in ApiKeys
    /\ acceptLanguage \in AcceptLanguages
    /\ pc = "method"
    /\ files = [image |-> <<>>]
    /\ fields = [outputLanguage |-> <<>>]
    /\ geminiResponseText = <<>>
    /\ analysisOutput = Undefined
    /\ error = <<>>
    /\ responses = <<>>
    /\ trace = <<>>
    /\ modelCalls = 0

request == <<variant, method, apiKey, acceptLanguage>>

\* mutant of ReturnMessage: the response is sent without `return`, and the
\* statements that follow in the try block throw on the missing value
SendMessageWithoutReturn(s, msg) ==
    /\ responses' = Append(responses, MessageResponse(s, msg))
    /\ pc' = "catch"
    /\ error' = <<"Cannot read properties of undefined">>
    /\ UNCHANGED trace

\* return response.status(s).json({ message: msg })
ReturnMessage(s, msg) ==
    /\ responses' = Append(responses, MessageResponse(s, msg))
    /\ pc' = "done"
    /\ UNCHANGED <<trace, error>>

\* a step that completed, control moves on to the step `to`
Continue(step, to) ==
    /\ trace' = Append(trace, step)
    /\ pc' = to
    /\ UNCHANGED <<responses, error>>

\* a statement of the try block threw: control moves to the catch block
Throw(err) ==
    /\ error' = err
    /\ pc' = "catch"
    /\ UNCHANGED <<responses, trace>>

\* mutant of OnModelFailure: a failed call is retried once
RetryOnModelFailure(calls) == IF calls < 2 THEN "generate" ELSE "catch"

\* where control goes when the awaited generateContent call rejects, or
\* result.response.text() throws: the catch block, whatever the number of
\* calls made so far
OnModelFailure(calls) == "catch"

\* if (request.method !== 'POST') return 405
CheckMethod ==
    /\ pc = "method"
    /\ IF MethodAllowed(method)
       THEN Continue("method", "key")
       ELSE ReturnMessage(405, <<"Method Not Allowed">>)
    /\ UNCHANGED <<request, files, fields, geminiResponseText, analysisOutput, modelCalls>>

\* if (!process.env.GEMINI_API_KEY) return 500; then the client and the
\* model object are built
CheckApiKey ==
    /\ pc = "key"
    /\ IF HasApiKey(apiKey)
       THEN Continue("key", IF variant = "flash" THEN "busboy" ELSE "parse")
       ELSE ReturnMessage(500, NoApiKeyMessage(variant))
    /\ UNCHANGED <<request, files, fields, geminiResponseText, analysisOutput, modelCalls>>

\* "flash" only: require('busboy') and busboy({ headers }) at the head of the
\* try block.  The module is an ES module, so whether require exists, and
\* whether busboy is installed, depends on the build; busboy() itself throws
\* on a request without a multipart content type.  Its listeners never run:
\* nothing is piped into it.
BusboySetup ==
    /\ pc = "busboy"
    /\ \/ Continue("busboy", "parse")
       \/ \E e \in ErrorTexts : Throw(e)
    /\ UNCHANGED <<request, files, fields, geminiResponseText, analysisOutput, modelCalls>>

\* const [fields, files] = await form.parse(request)
FormParse ==
    /\ pc = "parse"
    /\ \/ /\ \E il \in ImageLists : files' = [image |-> il]
          /\ \E ol \in OutputLanguageLists : fields' = [outputLanguage |-> ol]
          /\ Continue("parse", "image")
       \/ /\ \E e \in ErrorTexts : Throw(e)
          /\ UNCHANGED <<files, fields>>
    /\ UNCHANGED <<request, geminiResponseText, analysisOutput, modelCalls>>

\* if (!files.image || files.image.length === 0) return 400
CheckImage ==
    /\ pc = "image"
    /\ IF HasImage(files)
       THEN Continue("image", "mime")
       ELSE ReturnMessage(400, <<"No image file uploaded.">>)
    /\ UNCHANGED <<request, files, fields, geminiResponseText, analysisOutput, modelCalls>>

\* const imageFile = files.image[0];
\* if (!imageFile.mimetype.startsWith('image/')) return 400
\* (reading .mimetype of a missing first file is a TypeError)
CheckMimetype ==
    /\ pc = "mime"
    /\ IF files.image = <<>> \/ files.image[1] = <<>>
       THEN Throw(<<"Cannot read properties of undefined">>)
       ELSE IF IsImageMimetype(files.image[1][1].mimetype)
            THEN Continue("mime", "read")
            ELSE ReturnMessage(400, <<"Invalid file type. Please upload an image.">>)
    /\ UNCHANGED <<request, files, fields, geminiResponseText, analysisOutput, modelCalls>>

\* const imageBuffer = await fs.readFile(imageFile.filepath); the prompt
\* parts are then built from it and from the fields
ReadFile ==
    /\ pc = "read"
    /\ \/ Continue("read", "generate")
       \/ \E e \in ErrorTexts : Throw(e)
    /\ UNCHANGED <<request, files, fields, geminiResponseText, analysisOutput, modelCalls>>

\* const result = await model.generateContent(..);
\* const geminiResponseText = result.response.text()
GenerateContent ==
    /\ pc = "generate"
    /\ modelCalls' = modelCalls + 1
    /\ \/ /\ \E t \in Replies : geminiResponseText' = t
          /\ Continue("model", "reply")
       \/ /\ \E e \in ErrorTexts : error' = e
          /\ pc' = OnModelFailure(modelCalls + 1)
          /\ UNCHANGED <<responses, trace, geminiResponseText>>
    /\ UNCHANGED <<request, files, fields, analysisOutput>>

\* the inner try/catch: analysisOutput is the parsed reply or the fallback
ParseReply ==
    /\ pc = "reply"
    /\ analysisOutput' = AnalysisOf(variant, OutputLanguage(fields), geminiResponseText)
    /\ pc' = "respond"
    /\ UNCHANGED <<request, files, fields, geminiResponseText, error, responses, trace,
                   modelCalls>>

\* response.status(200).json({ analysis: analysisOutput })
SendAnalysis ==
    /\ pc = "respond"
    /\ responses' = Append(responses, AnalysisResponse(analysisOutput))
    /\ pc' = "done"
    /\ UNCHANGED <<request, files, fields, geminiResponseText, analysisOutput, error,
                   trace, modelCalls>>

\* the outer catch block: response.status(500).json({ message: errorMessage })
CatchError ==
    /\ pc = "catch"
    /\ responses' = Append(responses,
                           MessageResponse(500, ErrorMessage(variant, acceptLanguage, error)))
    /\ pc' = "done"
    /\ UNCHANGED <<request, files, fields, geminiResponseText, analysisOutput, error,
                   trace, modelCalls>>

Next ==
    \/ CheckMethod
    \/ CheckApiKey
    \/ BusboySetup
    \/ FormParse
    \/ CheckImage
    \/ CheckMimetype
    \/ ReadFile
    \/ GenerateContent
    \/ ParseReply
    \/ SendAnalysis
    \/ CatchError

Spec == Init /\ [][Next]_vars

-----------------------------------------------------------------------------
(* Properties *)

Range(q) == {q[i] : i \in DOMAIN q}

Finished == pc = "done"

\* the handler sent exactly the response { message: msg } with status s
SentOnlyMessage(s, msg) ==
    responses = <<[status |-> s, keys |-> {"message"}, message |-> msg,
                   analysis |-> Undefined]>>

FiveFields == {"direction", "rationale", "support", "resistance", "riskWarning"}

KeysOf(a) == {a.items[i].k : i \in DOMAIN a.items}

HasFiveFields(a) == a.type = "object" /\ FiveFields \subseteq KeysOf(a)

\* the model was called and replied with a text
ModelReplied == "model" \in Range(trace)

\* C1: a request whose method is not POST gets exactly the response 405
\* { message: 'Method Not Allowed' } in every variant, whatever the API key and
\* the headers are; the handler goes no further than the method test, so the
\* upload is never parsed and the model never called.
C1_NonPostIs405 ==
    method # "POST" =>
        /\ pc \in {"method", "done"}
        /\ Finished => SentOnlyMessage(405, <<"Method Not Allowed">>)
        /\ trace = <<>>
        /\ modelCalls = 0

C1_Witness ==
    /\ Finished /\ method = "PUT" /\ variant = "flash" /\ apiKey = <<"key">>
    /\ acceptLanguage = <<<<"i", "d">>>>
    /\ SentOnlyMessage(405, <<"Method Not Allowed">>)

\* C2: every 200 response carries { analysis } with the five fields direction,
\* rationale, support, resistance and riskWarning, whatever the model replied,
\* and every other response carries { message } and no analysis.
C2_ResponseShape ==
    \A i \in DOMAIN responses :
        IF responses[i].status = 200
        THEN responses[i].keys = {"analysis"} /\ HasFiveFields(responses[i].analysis)
        ELSE responses[i].keys = {"message"} /\ responses[i].analysis = Undefined

\* the fallback record as the claim describes it, for the language lang
ExpectedFallback(prefix, lang, text) ==
    JObject(<<[k |-> "direction",
               v |-> JString(<<IF lang = "id" THEN "Tidak Pasti" ELSE "Uncertain">>)],
              [k |-> "rationale", v |-> JString(<<prefix>> \o text)],
              [k |-> "support", v |-> JString(<<"N/A">>)],
              [k |-> "resistance", v |-> JString(<<"N/A">>)],
              [k |-> "riskWarning",
               v |-> JString(<<IF lang = "id"
                               THEN "Selalu berhati-hati. Analisis AI hanya untuk tujuan informasi."
                               ELSE "Always exercise caution. AI analysis is for informational purposes only.">>)]>>)

ExpectedPrefix(v, lang) ==
    CASE v = "pro" /\ lang = "id" -> "Gagal mem-parse analisis dari AI. Respon mentah: "
      [] v = "pro" /\ lang # "id" -> "Failed to parse analysis from AI. Raw response: "
      [] v = "fundamental" /\ lang = "id" ->
            "Gagal mem-parse analisis rinci dari AI. Respon mentah: "
      [] v = "fundamental" /\ lang # "id" ->
            "Failed to parse detailed analysis from AI. Raw response: "
      [] OTHER -> "Could not parse detailed analysis from AI. Raw response: "

\* the outputLanguage the request asked for ('en' when the field is absent)
RequestedLanguage ==
    IF fields.outputLanguage = <<>> THEN "en" ELSE fields.outputLanguage[1][1]

SentFallback(lang) ==
    responses = <<[status |-> 200, keys |-> {"analysis"}, message |-> <<>>,
                   analysis |-> ExpectedFallback(ExpectedPrefix(variant, lang), lang,
                                                 geminiResponseText)]>>

\* C3 as stated: in the two handlers that read outputLanguage, a reply that is
\* not JSON as a whole always gets the 200 fallback record.
C3_FallbackWhenNotJson ==
    (Finished /\ ModelReplied /\ variant \in {"pro", "fundamental"}
        /\ ~JSONParse(geminiResponseText).ok)
    => SentFallback(RequestedLanguage)

\* C3 amended: a reply from which the handler cannot parse JSON -- the whole
\* reply in src/api/analyze-chart.js; in the two handlers of part_000 the
\* content of the first non-empty fenced json block when there is one, else
\* the whole reply -- gets the response 200 with the fallback record: direction
\* 'Uncertain', support and resistance 'N/A', the canned risk warning, and as
\* rationale the handler's fixed prefix followed by the raw reply unchanged; the
\* Indonesian texts are used when outputLanguage is 'id', except in the third
\* handler, which reads no outputLanguage and always answers in English.
C3_FallbackWhenUnparsable ==
    (Finished /\ ModelReplied /\ ~ReplyParse(variant, geminiResponseText).ok)
    => SentFallback(IF variant = "flash" THEN "en" ELSE RequestedLanguage)

C3_Witness ==
    /\ Finished /\ ModelReplied /\ variant = "fundamental"
    /\ RequestedLanguage = "id"
    /\ geminiResponseText = <<"FENCEjson", "\n", "Here is my analysis", "\n", "FENCE">>
    /\ SentFallback("id")

\* C4: whenever the model replies the handler answers 200 { analysis }, and
\* when the reply text is JSON the analysis is exactly the value it parses to:
\* each of the five fields is the reply's, and nothing is added, dropped or
\* altered.
C4_AnalysisIsParsedReply ==
    (Finished /\ ModelReplied) =>
        /\ Len(responses) = 1
        /\ responses[1].status = 200
        /\ responses[1].keys = {"analysis"}
        /\ JSONParse(geminiResponseText).ok
              => responses[1].analysis = JSONParse(geminiResponseText).val

C4_Witness ==
    /\ Finished /\ ModelReplied /\ variant = "pro"
    /\ geminiResponseText = <<"\n">> \o FullObject \o <<" ">>
    /\ Len(responses) = 1
    /\ responses[1].status = 200
    /\ HasFiveFields(responses[1].analysis)
    /\ responses[1].analysis.items[1] = [k |-> "direction", v |-> JString(<<"Bullish">>)]

\* C5: a POST request served without an API key (unset or empty) gets exactly
\* the response 500 with the handler's static message, which depends on nothing
\* of the request; the handler goes no further than the key test, so this holds
\* whatever the upload is, and the upload is never parsed and the model never
\* called.
C5_NoApiKeyIsStatic500 ==
    (method = "POST" /\ apiKey \in {<<>>, <<"">>}) =>
        /\ pc \in {"method", "key", "done"}
        /\ Finished =>
              SentOnlyMessage(500,
                  IF variant = "flash"
                  THEN <<"GEMINI_API_KEY environment variable is not configured.">>
                  ELSE <<"Server is full, please try again later.">>)
        /\ "parse" \notin Range(trace)
        /\ modelCalls = 0

C5_Witness ==
    /\ Finished /\ method = "POST" /\ apiKey = <<"">> /\ variant = "pro"
    /\ acceptLanguage = <<<<"i", "d">>>>
    /\ SentOnlyMessage(500, <<"Server is full, please try again later.">>)

\* the multipart body was parsed and holds no image file: no `image` entry, or
\* an empty list of files
ParsedWithoutImage ==
    "parse" \in Range(trace) /\ (files.image = <<>> \/ files.image = <<<<>>>>)

\* C6: a POST request with the API key configured whose parsed body has no
\* image file, absent or an empty list, gets exactly the response 400 'No image
\* file uploaded.', and the model is not called.
C6_NoImageIs400 ==
    ParsedWithoutImage =>
        /\ pc \in {"image", "done"}
        /\ Finished => SentOnlyMessage(400, <<"No image file uploaded.">>)
        /\ modelCalls = 0

C6_Witness ==
    /\ Finished /\ ParsedWithoutImage /\ files.image = <<<<>>>>
    /\ SentOnlyMessage(400, <<"No image file uploaded.">>)

\* the first uploaded file, once the image test has passed
ImageFile == files.image[1][1]

\* the MIME type does not begin with the six characters of 'image/'
NotAnImageType(m) ==
    \/ Len(m) < 6
    \/ m[1] # "i" \/ m[2] # "m" \/ m[3] # "a" \/ m[4] # "g" \/ m[5] # "e" \/ m[6] # "/"

\* C7: a POST request with the API key configured whose first image file has a
\* MIME type that is not an image type gets exactly the response 400 'Invalid
\* file type. Please upload an image.'; the file is not read and the model is
\* not called.
C7_NonImageTypeIs400 ==
    ("image" \in Range(trace) /\ NotAnImageType(ImageFile.mimetype)) =>
        /\ pc \in {"mime", "done"}
        /\ Finished => SentOnlyMessage(400, <<"Invalid file type. Please upload an image.">>)
        /\ "read" \notin Range(trace)
        /\ modelCalls = 0

C7_Witness ==
    /\ Finished /\ "image" \in Range(trace)
    /\ ImageFile.mimetype = <<"t", "e", "x", "t", "/", "i", "m", "a", "g", "e", "/">>
    /\ SentOnlyMessage(400, <<"Invalid file type. Please upload an image.">>)

\* parsing the multipart body failed: the handler got as far as form.parse and
\* an error was thrown there
ParseFailed ==
    /\ error # <<>>
    /\ trace \in {<<"method", "key">>, <<"method", "key", "busboy">>}
    /\ variant = "flash" => "busboy" \in Range(trace)

\* C8: a POST request with the API key configured whose multipart body cannot
\* be parsed gets status 400, like a missing upload.
C8_MalformedUploadIs400 ==
    (Finished /\ ParseFailed) => (Len(responses) = 1 /\ responses[1].status = 400)

\* the header value contains the two characters 'id' side by side
HeaderNamesIndonesian ==
    /\ acceptLanguage # <<>>
    /\ \E i \in 1..(Len(acceptLanguage[1]) - 1) :
          acceptLanguage[1][i] = "i" /\ acceptLanguage[1][i + 1] = "d"

\* reading the uploaded file or calling the model failed
ReadOrModelFailed == "mime" \in Range(trace) /\ error # <<>>

\* C9: after the upload checks passed, a failure of the file read or of the
\* model call gets exactly one response, 500 { message }, never the 200
\* fallback, whose message is a fixed prefix followed by the error's text; in
\* src/api/analyze-chart.js the prefix is the Indonesian one exactly when the
\* accept-language header contains 'id', whatever outputLanguage is.
C9_FailureIs500WithErrorText ==
    (Finished /\ ReadOrModelFailed) =>
        /\ Len(responses) = 1
        /\ responses[1].status = 500
        /\ responses[1].keys = {"message"}
        /\ responses[1].analysis = Undefined
        /\ Len(responses[1].message) = 1 + Len(error)
        /\ SubSeq(responses[1].message, 2, Len(responses[1].message)) = error
        /\ variant = "pro" =>
              responses[1].message[1] =
                  IF HeaderNamesIndonesian
                  THEN "Gagal menganalisis grafik. Detail kesalahan: "
                  ELSE "Failed to analyze chart. Error details: "

C9_Witness ==
    /\ Finished /\ ReadOrModelFailed /\ variant = "pro"
    /\ modelCalls = 1
    /\ acceptLanguage = <<<<"e", "n", ",", "i", "d">>>>
    /\ RequestedLanguage = "en"
    /\ responses[1].message = <<"Gagal menganalisis grafik. Detail kesalahan: ">> \o error

\* the steps of the trace other than the "flash" handler's busboy set-up
ChecksDone == SelectSeq(trace, LAMBDA x : x # "busboy")

\* C10: the model is called at most once in an invocation, and only after the
\* method test, the key test, the parse of the body, the image test, the MIME
\* test and the file read have succeeded, in this order; an invocation that
\* ends in 405 or 400 has not called it.
C10_OneModelCallAfterAllChecks ==
    /\ modelCalls <= 1
    /\ modelCalls = 1 =>
          /\ SubSeq(ChecksDone, 1, 6) = <<"method", "key", "parse", "image", "mime", "read">>
          /\ method = "POST"
          /\ apiKey # <<>> /\ apiKey # <<"">>
          /\ files.image # <<>> /\ files.image # <<<<>>>>
          /\ ~NotAnImageType(ImageFile.mimetype)
    /\ (Finished /\ responses # <<>> /\ responses[1].status \in {400, 405})
          => modelCalls = 0

C10_Witness ==
    /\ Finished /\ modelCalls = 1 /\ error # <<>> /\ variant = "pro"
    /\ trace = <<"method", "key", "parse", "image", "mime", "read">>
    /\ responses[1].status = 500

\* how far the handler has come: every position lies after the ones before it
\* in the text of the function
Position(p) ==
    CASE p = "method" -> 0 [] p = "key" -> 1 [] p = "busboy" -> 2 [] p = "parse" -> 3
      [] p = "image" -> 4 [] p = "mime" -> 5 [] p = "read" -> 6 [] p = "generate" -> 7
      [] p = "reply" -> 8 [] p = "respond" -> 9 [] p = "catch" -> 10 [] OTHER -> 11

\* the handler stands at a statement that can be executed: the guards of the
\* steps of Next, each of which asks only for its position (the busboy set-up
\* exists in the "flash" handler alone), and an awaited operation that settles
\* has an outcome to settle with
CanStep ==
    \/ pc \in {"method", "key", "image", "mime", "reply", "respond", "catch"}
    \/ pc = "busboy" /\ variant = "flash"
    \/ pc = "parse" /\ ImageLists # {} /\ OutputLanguageLists # {}
    \/ pc = "read"
    \/ pc = "generate" /\ Replies # {}

\* C11: an invocation whose awaited operations all settle sends exactly one
\* response.  It comes to its end: short of the end the handler always stands
\* at a statement it can execute, and every step moves forward in the function,
\* so there are at most eleven of them.  At the end one response has been sent,
\* at no time have two been sent, and once a response is sent the handler is at
\* its end and takes no further step (no step starts from a state with a
\* response sent).
C11_ExactlyOneResponse ==
    /\ [](~Finished => CanStep)
    /\ [][Position(pc') > Position(pc)]_vars
    /\ [](Len(responses) <= 1)
    /\ [](Finished => Len(responses) = 1)
    /\ [](responses # <<>> => Finished)
    /\ [][responses = <<>>]_vars

C11_Witness ==
    /\ Finished /\ Len(responses) = 1 /\ responses[1].status = 200
    /\ variant = "fundamental"
    /\ trace = <<"method", "key", "parse", "image", "mime", "read", "model">>
    /\ ~ReplyParse(variant, geminiResponseText).ok

====
